---- MODULE Spec2Model ----
(***************************************************************************)
(* Model of the SteamGuess raw-data fetchers: scripts/fetch_common.py,     *)
(* scripts/fetch_store_raw.py, scripts/fetch_steamspy_raw.py and           *)
(* scripts/fetch_games.py.                                                 *)
(*                                                                         *)
(* Time is counted in ticks of 250 ms, so 1.0 s = 4 ticks.  The limiter's  *)
(* timestamp is kept relative: `elapsed` is time.monotonic() - _last_ts,   *)
(* the quantity wait() computes as `delta`, saturated at MaxElapsed (the   *)
(* code only compares it with min_interval).                               *)
(***************************************************************************)
EXTENDS Integers, Sequences, FiniteSets, TLC

VARIABLES
  min_interval,   \* RateLimiter.min_interval
  elapsed,        \* time.monotonic() - RateLimiter._last_ts, saturated
  waited,         \* value returned by the latest wait()
  gap,            \* time between the returns of the two latest wait() calls
  nwaits          \* number of wait() calls that returned, saturated at 2

limiterVars == <<min_interval, elapsed, waited, gap, nwaits>>

VARIABLES
  fetcher,        \* the module whose http_get_json runs
  retries,        \* its retries argument (RETRY_LIMIT in fetch_games)
  url,            \* its url argument, named by the appid it asks for
  call,           \* the locals of the running http_get_json call
  ncalls          \* number of calls started, saturated at 2

fetchVars == <<fetcher, retries, url, call, ncalls>>

VARIABLES
  pc,             \* where main() is: idle, loading, resuming, opening,
                  \* running, done, aborted (it raised), killed (terminated)
  args,           \* the parsed command line
  appids,         \* the list the loop iterates over
  done_appids,    \* the set the resume scan returned
  idx,            \* number of identifiers the loop has visited
  ok_count, skip_count, err_count,
  out,            \* the output file on disk
  nruns,          \* number of runs started
  chain0,         \* the output file when the current row of resumed runs began
  requested,      \* appids an HTTP request was issued for in that row of runs
  last            \* how the latest http_get_json call of the loop ended

runVars == <<pc, args, appids, done_appids, idx, ok_count, skip_count, err_count,
             out, nruns, chain0, requested, last>>

VARIABLES
  store_one,      \* build_raw_record, build_store_record: the store payload
                  \* of one appid
  store_pruned,   \* build_raw_record: prune_store_payload(store_one)
  payload         \* build_store_record: drop_blacklisted_fields(store_one, ...)

pruneVars == <<store_one, store_pruned, payload>>

VARIABLES
  now,            \* fetch_games: time.monotonic(), in ticks
  limiters,       \* fetch_games: store_limiter, steamspy_limiter and
                  \* steamspy_all_limiter, each with min_interval and _last_ts
  chosen          \* fetch_games.http_get_json: the url of the latest
                  \* iteration, what choose_limiter gave for it and what
                  \* limiter.wait() returned

gamesVars == <<now, limiters, chosen>>

vars == <<limiterVars, fetchVars, runVars, pruneVars, gamesVars>>

(***************************************************************************)
(* Bounds of the model.                                                    *)
(***************************************************************************)
MaxElapsed == 13    \* saturation of elapsed time, above every interval
MaxOverrun == 1     \* time.sleep() may sleep longer than asked, by 0..MaxOverrun
MaxRetries == 3     \* largest --max-retries explored
MaxAppid == 2       \* appids are 1..MaxAppid
MaxLen == 2         \* longest identifier list explored
MaxRuns == 3        \* runs of main() in a row
MaxClock == 16      \* the clock of the fetch_games limiters stops here

(***************************************************************************)
(* Program constants, in ticks.                                            *)
(***************************************************************************)
STORE_MAX_RETRIES == 2          \* MAX_RETRIES of fetch_store_raw
SPY_MAX_RETRIES == 1            \* MAX_RETRIES of fetch_steamspy_raw
STORE_INTERVAL == 10            \* 2.5 s
TIMEOUT == 25                   \* TIMEOUT of fetch_store_raw, in seconds
STEAMSPY_INTERVAL == 12         \* 3.0 s
GAMES_STEAMSPY_INTERVAL == 8    \* 2.0 s

BACKOFF_START == 4              \* backoff = 1.0
JITTER == 2                     \* random.random() * 0.5 lies in [0, 0.5 s)
COOLDOWN == 240                 \* 60.0 s floor in fetch_common
GAMES_COOLDOWN == 20            \* 5.0 s floor in fetch_games
COOLDOWN_JITTER == 8            \* random.random() * 2.0 lies in [0, 2.0 s)

MAX_STORE_STRING_LENGTH == 600  \* characters
MAX_STORE_LIST_LENGTH == 200    \* items

Intervals == {STORE_INTERVAL, STEAMSPY_INTERVAL, GAMES_STEAMSPY_INTERVAL}

Min(a, b) == IF a < b THEN a ELSE b
Max(a, b) == IF a < b THEN b ELSE a

(***************************************************************************)
(* RateLimiter.wait().  delta = now - _last_ts; overrun is the extra time  *)
(* time.sleep(waited) took.  `slept` is the time spent inside the call;    *)
(* the call returns as it stores _last_ts = time.monotonic().              *)
(***************************************************************************)
wait_short(interval, delta, overrun) ==
  LET w == IF delta < interval THEN interval - delta - 1 ELSE 0
      slept == IF delta < interval THEN w + overrun ELSE 0
  IN [waited |-> w, slept |-> slept]

wait(interval, delta, overrun) ==
  LET w == IF delta < interval THEN interval - delta ELSE 0
      slept == IF delta < interval THEN w + overrun ELSE 0
  IN [waited |-> w, slept |-> slept]

\* what limiter.wait() does to the limiter, followed by `after` more ticks
limiter_after(lim, interval, overrun, after) ==
  LET r == wait(interval, lim.elapsed, overrun) IN
  [elapsed |-> Min(after, MaxElapsed),
   waited |-> r.waited,
   gap |-> Min(lim.elapsed + r.slept, MaxElapsed),
   nwaits |-> Min(lim.nwaits + 1, 2)]

Limiter == [elapsed |-> elapsed, waited |-> waited, gap |-> gap, nwaits |-> nwaits]

SetLimiter(lim) ==
  /\ elapsed' = lim.elapsed
  /\ waited' = lim.waited
  /\ gap' = lim.gap
  /\ nwaits' = lim.nwaits
  /\ UNCHANGED min_interval

WaitThen(overrun, after) == SetLimiter(limiter_after(Limiter, min_interval, overrun, after))

\* the caller does something else for one tick
Pass ==
  /\ elapsed' = Min(elapsed + 1, MaxElapsed)
  /\ UNCHANGED <<min_interval, waited, gap, nwaits>>
  /\ UNCHANGED <<fetchVars, runVars, pruneVars, gamesVars>>

\* one call of limiter.wait()
Wait ==
  /\ \E overrun \in 0..MaxOverrun : WaitThen(overrun, 0)
  /\ UNCHANGED <<fetchVars, runVars, pruneVars, gamesVars>>

(***************************************************************************)
(* The limiters of fetch_games.py: three module-level RateLimiter objects, *)
(* and choose_limiter(url) to pick one by the host of the url and its      *)
(* `request` query parameter.  main() sets their min_interval from the     *)
(* command line.                                                           *)
(***************************************************************************)
LimiterNames == {"store_limiter", "steamspy_limiter", "steamspy_all_limiter"}

NoLimiters == [l \in LimiterNames |-> [min_interval |-> 1, last_ts |-> 0]]

\* urls by what choose_limiter reads of them: the host and the value of the
\* `request` parameter ("" when there is none)
GamesUrls ==
  {[host |-> h, request |-> q] :
     h \in {"store.steampowered.com", "steamspy.com", "www.steamspy.com", "example.com"},
     q \in {"", "appdetails", "all"}}

NoChoice == [url |-> [host |-> "", request |-> ""], source_name |-> "none",
             limiter |-> "none", waited |-> 0]

\* "steamspy.com" in host
SteamSpyHosts == {"steamspy.com", "www.steamspy.com"}

choose_limiter_by_host(u) ==
  IF u.host \in SteamSpyHosts
  THEN [source_name |-> "steamspy:normal", limiter |-> "steamspy_limiter"]
  ELSE IF u.host = "store.steampowered.com"
  THEN [source_name |-> "store", limiter |-> "store_limiter"]
  ELSE [source_name |-> "default", limiter |-> "steamspy_limiter"]

choose_limiter(u) ==
  IF u.host \in SteamSpyHosts
  THEN IF u.request = "all"
       THEN [source_name |-> "steamspy:all", limiter |-> "steamspy_all_limiter"]
       ELSE [source_name |-> "steamspy:normal", limiter |-> "steamspy_limiter"]
  ELSE IF u.host = "store.steampowered.com"
  THEN [source_name |-> "store", limiter |-> "store_limiter"]
  ELSE [source_name |-> "default", limiter |-> "steamspy_limiter"]

\* --spy-all-interval values of the command line (the default of 60.1 s is
\* no whole number of ticks)
SpyAllIntervals == {GAMES_STEAMSPY_INTERVAL, STEAMSPY_INTERVAL}

\* source_name, limiter = choose_limiter(url); waited = limiter.wait()
GamesWait ==
  /\ \E u \in GamesUrls, overrun \in 0..MaxOverrun :
       LET c == choose_limiter(u)
           lim == limiters[c.limiter]
           r == wait(lim.min_interval, now - lim.last_ts, overrun)
       IN /\ now + r.slept <= MaxClock
          /\ now' = now + r.slept
          /\ limiters' = [limiters EXCEPT ![c.limiter].last_ts = now + r.slept]
          /\ chosen' = [url |-> u, source_name |-> c.source_name,
                         limiter |-> c.limiter, waited |-> r.waited]
  /\ UNCHANGED <<limiterVars, fetchVars, runVars, pruneVars>>

\* time passes between two calls
GamesPass ==
  /\ now < MaxClock
  /\ now' = now + 1
  /\ UNCHANGED <<limiters, chosen>>
  /\ UNCHANGED <<limiterVars, fetchVars, runVars, pruneVars>>

(***************************************************************************)
(* http_get_json.                                                          *)
(*                                                                         *)
(* What one urlopen() + read() + json.loads() can end in:                  *)
(*   kind "ok"        a 2xx response whose body was read; json says        *)
(*                    whether the body parses, marker whether it holds     *)
(*                    "Too many connections", payload what it parses to    *)
(*   kind "HTTPError" urlopen raised HTTPError with the status in code     *)
(*   kind "URLError"  urlopen raised URLError (refused, DNS, connect       *)
(*                    timeout)                                             *)
(*   kind "TimeoutError" the socket timed out, or the peer went away,      *)
(*                    while the response was awaited or its body read:     *)
(*                    http.client raises these bare, not as URLError       *)
(***************************************************************************)
Payloads == {"success", "nodata", "notdict", "unserialisable"}

StatusCodes == {400, 403, 404, 429, 500, 501, 502, 503, 504}

NoResponse == [kind |-> "none", code |-> 0, json |-> FALSE, marker |-> FALSE,
               payload |-> "none"]

Responses ==
  {[NoResponse EXCEPT !.kind = "ok", !.code = 200, !.json = TRUE, !.payload = p] :
      p \in Payloads}
  \cup {[NoResponse EXCEPT !.kind = "ok", !.code = 200, !.marker = m] : m \in BOOLEAN}
  \cup {[NoResponse EXCEPT !.kind = "HTTPError", !.code = c] : c \in StatusCodes}
  \cup {[NoResponse EXCEPT !.kind = "URLError"],
        [NoResponse EXCEPT !.kind = "TimeoutError"]}

RETRY_CODES_with_404 == {404, 429, 500, 502, 503, 504}

RETRY_CODES_without_502 == {429, 500, 503, 504}

RETRY_CODES == {429, 500, 502, 503, 504}

cooldown(module) == IF module = "fetch_games" THEN GAMES_COOLDOWN ELSE COOLDOWN

NoResult == [kind |-> "none", payload |-> "none", code |-> 0, url |-> 0, retries |-> 0]

\* the locals at `backoff = 1.0`, before the loop; prev is the finished call
new_call_keeps_backoff(prev) ==
  [state |-> "loop", attempt |-> 0, backoff |-> prev.backoff, sleep_for |-> 0,
   response |-> NoResponse, result |-> NoResult,
   requests |-> 0, nsleeps |-> 0, used |-> 0]

new_call(prev) ==
  [state |-> "loop", attempt |-> 0, backoff |-> BACKOFF_START, sleep_for |-> 0,
   response |-> NoResponse, result |-> NoResult,
   requests |-> 0, nsleeps |-> 0, used |-> 0]

IdleCall == [new_call([backoff |-> BACKOFF_START]) EXCEPT !.state = "idle"]

\* `return payload`: n are the locals after the request
return_payload_and_sleep(n, resp) ==
  [n EXCEPT !.state = "returned", !.nsleeps = @ + 1, !.sleep_for = n.backoff,
            !.result = [NoResult EXCEPT !.kind = "value", !.payload = resp.payload]]

return_payload(n, resp) ==
  [n EXCEPT !.state = "returned",
            !.result = [NoResult EXCEPT !.kind = "value", !.payload = resp.payload]]

\* the body of one loop iteration after limiter.wait(): the request and what
\* the try/except makes of its outcome.  requests counts urlopen() calls,
\* nsleeps the backoff sleeps, used is the backoff the latest sleep was
\* computed from.
http_attempt(c, resp, floor, jitter, cjitter) ==
  LET n == [c EXCEPT !.attempt = @ + 1, !.requests = @ + 1, !.response = resp,
                     !.sleep_for = 0]
      base == c.backoff + jitter
      retry(s) == [n EXCEPT !.sleep_for = s, !.backoff = c.backoff * 2,
                            !.nsleeps = @ + 1, !.used = c.backoff]
      raised(k) == [n EXCEPT !.state = "raised",
                             !.result = [NoResult EXCEPT !.kind = k, !.code = resp.code]]
  IN CASE resp.kind = "ok" /\ resp.json -> return_payload(n, resp)
       [] resp.kind = "ok" /\ ~resp.json ->
            retry(IF resp.marker THEN Max(base, floor + cjitter) ELSE base)
       [] resp.kind = "HTTPError" /\ resp.code \in RETRY_CODES -> retry(base)
       [] resp.kind = "HTTPError" /\ resp.code \notin RETRY_CODES -> raised("HTTPError")
       [] resp.kind = "URLError" -> retry(base)
       [] OTHER -> raised(resp.kind)

\* the loop header: when range(retries) is used up the function raises
\* RuntimeError(f"Failed after retries ({retries}): {url}")
http_loop(c, n, u) ==
  IF c.state = "loop" /\ c.attempt >= n
  THEN [c EXCEPT !.state = "raised",
                 !.result = [NoResult EXCEPT !.kind = "RuntimeError",
                                             !.url = u, !.retries = n]]
  ELSE c

\* a caller enters http_get_json(url, ...)
CallFetch ==
  /\ call.state \in {"idle", "returned", "raised"}
  /\ \E u \in 1..MaxAppid :
       /\ url' = u
       /\ call' = http_loop(new_call(call), retries, u)
  /\ ncalls' = Min(ncalls + 1, 2)
  /\ UNCHANGED <<fetcher, retries>>
  /\ UNCHANGED <<limiterVars, runVars, pruneVars, gamesVars>>

\* one iteration of the retry loop: limiter.wait(), the request, the backoff
\* sleep if any, and the loop header that follows
Attempt ==
  /\ call.state = "loop"
  /\ \E resp \in Responses, jitter \in 0..(JITTER - 1), overrun \in 0..MaxOverrun :
     \E cjitter \in (IF resp.marker THEN 0..(COOLDOWN_JITTER - 1) ELSE {0}) :
       LET c == http_loop(http_attempt(call, resp, cooldown(fetcher), jitter, cjitter),
                          retries, url)
       IN /\ call' = c
          /\ WaitThen(overrun, c.sleep_for)
  /\ UNCHANGED <<fetcher, retries, url, ncalls>>
  /\ UNCHANGED <<runVars, pruneVars, gamesVars>>

(***************************************************************************)
(* The output file.  A line is a sequence of pieces, a piece the text of   *)
(* one record's json.dumps() or a cut of it:                               *)
(*   part "whole"    the complete JSON text                                *)
(*   part "prefix"   a proper prefix, cut between two characters           *)
(*   part "midchar"  a proper prefix, cut inside a multi-byte UTF-8        *)
(*                   character (ensure_ascii=False writes them raw)        *)
(* lines are the lines ended by "\n"; tail is what follows the last "\n".  *)
(***************************************************************************)
NoFile == [exists |-> FALSE, lines |-> <<>>, tail |-> <<>>]

Parts == {"whole", "prefix", "midchar"}

AllLines(f) == IF f.tail = <<>> THEN f.lines ELSE Append(f.lines, f.tail)

\* out_path.open(write_mode)
open_file_truncates(f, write_mode) == [exists |-> TRUE, lines |-> <<>>, tail |-> <<>>]

open_file_appends(f, write_mode) == [f EXCEPT !.exists = TRUE]

open_file(f, write_mode) ==
  IF write_mode = "w" THEN [exists |-> TRUE, lines |-> <<>>, tail |-> <<>>]
  ELSE [f EXCEPT !.exists = TRUE]

\* handle.write(json.dumps(record, ensure_ascii=False) + "\n")
\* mode "a" writes at the end of the file, after whatever it ends with
write_line_at_front(f, appid) ==
  [f EXCEPT !.lines = <<f.tail \o <<[appid |-> appid, part |-> "whole"]>> >> \o f.lines,
            !.tail = <<>>]

write_line_twice(f, appid) ==
  [f EXCEPT !.lines = f.lines \o << f.tail \o <<[appid |-> appid, part |-> "whole"]>>,
                                   <<[appid |-> appid, part |-> "whole"]>> >>,
            !.tail = <<>>]

write_line(f, appid) ==
  [f EXCEPT !.lines = Append(f.lines, f.tail \o <<[appid |-> appid, part |-> "whole"]>>),
            !.tail = <<>>]

\* the process is terminated before the last record written reached the disk
\* whole: the file ends in that record cut as `part` says
cut_last_write(f, part) ==
  LET n == Len(f.lines)
      line == f.lines[n]
      m == Len(line)
  IN [f EXCEPT !.lines = SubSeq(f.lines, 1, n - 1),
               !.tail = SubSeq(line, 1, m - 1) \o <<[line[m] EXCEPT !.part = part]>>]

\* json.loads(raw) gives a dict of one key: the line is one whole record
\* and nothing else
one_record(line) == Len(line) = 1 /\ line[1].part = "whole"

\* iterating the text handle decodes it as UTF-8 (errors="strict"), outside
\* the try block: a cut multi-byte character raises UnicodeDecodeError
undecodable(f) ==
  \E k \in 1..Len(AllLines(f)) :
    \E j \in 1..Len(AllLines(f)[k]) : AllLines(f)[k][j].part = "midchar"

load_done_appids_needs_file(f) ==
  IF ~f.exists THEN [raised |-> TRUE, done |-> {}]
  ELSE IF undecodable(f) THEN [raised |-> TRUE, done |-> {}]
  ELSE [raised |-> FALSE,
        done |-> {AllLines(f)[k][1].appid :
                    k \in {i \in 1..Len(AllLines(f)) : one_record(AllLines(f)[i])}}]

load_done_appids_from_jsonl(f) ==
  IF ~f.exists THEN [raised |-> FALSE, done |-> {}]
  ELSE IF undecodable(f) THEN [raised |-> TRUE, done |-> {}]
  ELSE [raised |-> FALSE,
        done |-> {AllLines(f)[k][1].appid :
                    k \in {i \in 1..Len(AllLines(f)) : one_record(AllLines(f)[i])}}]

(***************************************************************************)
(* The identifier list.                                                    *)
(***************************************************************************)
RECURSIVE SeqsUpTo(_, _)
SeqsUpTo(S, n) ==
  IF n = 0 THEN {<<>>}
  ELSE SeqsUpTo(S, n - 1) \cup
       {Append(q, x) : q \in {t \in SeqsUpTo(S, n - 1) : Len(t) = n - 1}, x \in S}

\* an entry of the list, as json.loads gives it:
\*   kind "int"    the integer val
\*   kind "str"    the decimal digits of val, as a string
\*   kind "float"  the number val + 0.5
\*   kind "bad"    a string that is no number, null, a nested list (val 0)
IntItems == {[kind |-> "int", val |-> i] : i \in 1..MaxAppid}

Items ==
  {[kind |-> k, val |-> i] : k \in {"int", "str", "float"}, i \in 1..MaxAppid}
  \cup {[kind |-> "bad", val |-> 0]}

\* int(item): int() parses a string of digits, cuts the fraction of a float
\* and raises on anything else
int_of_ints_only(item) ==
  IF item.kind = "int" THEN [raised |-> FALSE, val |-> item.val]
  ELSE [raised |-> TRUE, val |-> 0]

int_of(item) ==
  IF item.kind \in {"int", "str", "float"} THEN [raised |-> FALSE, val |-> item.val]
  ELSE [raised |-> TRUE, val |-> 0]

\* the appid-list document: whether the file exists, its JSON shape
\* ("object" {"appids": [...]}, "array" [...], "other" anything else) and the
\* entries of its list
Documents ==
  {[exists |-> TRUE, shape |-> "object", items |-> q] : q \in SeqsUpTo(IntItems, MaxLen)}

Shapes == {"object", "array", "other"}

AnyDocuments ==
  {[exists |-> TRUE, shape |-> sh, items |-> q] :
     sh \in {"object", "array"}, q \in SeqsUpTo(Items, MaxLen)}
  \cup {[exists |-> TRUE, shape |-> "other", items |-> <<>>],
        [exists |-> FALSE, shape |-> "other", items |-> <<>>]}

load_local_appids_or_nothing(doc) ==
  IF ~doc.exists \/ doc.shape \notin {"object", "array"}
  THEN [raised |-> FALSE, appids |-> <<>>]
  ELSE LET kept == SelectSeq(doc.items, LAMBDA x : ~int_of(x).raised)
       IN [raised |-> FALSE, appids |-> [i \in 1..Len(kept) |-> int_of(kept[i]).val]]

load_local_appids(doc) ==
  IF ~doc.exists THEN [raised |-> TRUE, appids |-> <<>>]
  ELSE IF doc.shape \notin {"object", "array"} THEN [raised |-> TRUE, appids |-> <<>>]
  ELSE LET kept == SelectSeq(doc.items, LAMBDA x : ~int_of(x).raised)
       IN [raised |-> FALSE, appids |-> [i \in 1..Len(kept) |-> int_of(kept[i]).val]]

apply_index_range_end_inclusive(ids, start_index, end_index, top_n) ==
  IF start_index < 0 \/ (end_index # -1 /\ end_index < start_index) \/ top_n < 0
  THEN [raised |-> TRUE, appids |-> <<>>]
  ELSE LET sliced == IF end_index = -1 THEN SubSeq(ids, start_index + 1, Len(ids))
                     ELSE SubSeq(ids, start_index + 1, Min(end_index + 1, Len(ids)))
       IN [raised |-> FALSE,
           appids |-> IF top_n > 0 THEN SubSeq(sliced, 1, Min(top_n, Len(sliced)))
                      ELSE sliced]

\* appids[start_index:] or appids[start_index:end_index], then [:top_n]
apply_index_range(ids, start_index, end_index, top_n) ==
  IF start_index < 0 \/ (end_index # -1 /\ end_index < start_index) \/ top_n < 0
  THEN [raised |-> TRUE, appids |-> <<>>]
  ELSE LET sliced == IF end_index = -1 THEN SubSeq(ids, start_index + 1, Len(ids))
                     ELSE SubSeq(ids, start_index + 1, Min(end_index, Len(ids)))
       IN [raised |-> FALSE,
           appids |-> IF top_n > 0 THEN SubSeq(sliced, 1, Min(top_n, Len(sliced)))
                      ELSE sliced]

\* appids = [appid for appid in appids if appid not in done_appids]
pending_all(ids, done) == ids

pending(ids, done) ==
  IF done # {} THEN SelectSeq(ids, LAMBDA x : x \notin done) ELSE ids

\* command lines with the default range, interval and timeout
Args ==
  {[resume |-> r, max_retries |-> n, appid_list |-> d,
    start_index |-> 0, end_index |-> -1, top_n |-> 0,
    interval |-> STORE_INTERVAL, timeout |-> TIMEOUT] :
     r \in BOOLEAN, n \in {SPY_MAX_RETRIES, STORE_MAX_RETRIES}, d \in Documents}

NoArgs == [resume |-> FALSE, max_retries |-> 1,
           appid_list |-> [exists |-> TRUE, shape |-> "object", items |-> <<>>],
           start_index |-> 0, end_index |-> -1, top_n |-> 0,
           interval |-> STORE_INTERVAL, timeout |-> TIMEOUT]

\* command lines with good and bad values, over a few documents
FewDocuments ==
  {[exists |-> FALSE, shape |-> "other", items |-> <<>>],
   [exists |-> TRUE, shape |-> "other", items |-> <<>>],
   [exists |-> TRUE, shape |-> "array",
    items |-> <<[kind |-> "int", val |-> 2], [kind |-> "int", val |-> 1],
                [kind |-> "int", val |-> 2]>>]}

AnyArgs ==
  {[resume |-> r, max_retries |-> n, appid_list |-> d,
    start_index |-> si, end_index |-> ei, top_n |-> tn,
    interval |-> iv, timeout |-> tm] :
     r \in BOOLEAN, n \in {0, SPY_MAX_RETRIES}, d \in FewDocuments,
     si \in {-1, 0, 1}, ei \in {-2, -1, 0, 1, 2, 4}, tn \in {-1, 0, 1, 2},
     iv \in {0, STORE_INTERVAL}, tm \in {0, TIMEOUT}}

\* command lines with good values, over any document
LoadArgs == {[NoArgs EXCEPT !.appid_list = d] : d \in AnyDocuments}

\* the checks main() makes of the arguments: TRUE when one raises ValueError
check_args_lenient(a) == a.interval < 0 \/ a.max_retries < 0 \/ a.timeout < 0

check_args(a) == a.interval <= 0 \/ a.max_retries <= 0 \/ a.timeout <= 0

(***************************************************************************)
(* One identifier of the loop.                                             *)
(***************************************************************************)
\* every way one http_get_json call can end, the limiter with it: x.call are
\* the locals of the call and x.lim the limiter; the jitter and the sleep
\* overrun are taken as 0 here
RECURSIVE fetch_steps(_, _, _, _, _, _)
fetch_steps(X, n, u, floor, interval, k) ==
  IF k = 0 THEN X
  ELSE fetch_steps(
         {x \in X : x.call.state # "loop"} \cup
         {LET c == http_loop(http_attempt(x.call, resp, floor, 0, 0), n, u)
          IN [call |-> c, lim |-> limiter_after(x.lim, interval, 0, c.sleep_for)] :
            x \in {y \in X : y.call.state = "loop"}, resp \in Responses},
         n, u, floor, interval, k - 1)

http_get_json(prev, lim, n, u, floor, interval) ==
  fetch_steps({[call |-> http_loop(new_call(prev), n, u), lim |-> lim]},
              n, u, floor, interval, n)

\* build_store_record / build_spy_record on what http_get_json gave:
\* "record" (a dict to write), "none" (no data) or "raise"
\*   success         a dict holding usable data for the appid
\*   nodata          a dict without it (success flag false or absent; {})
\*   notdict         JSON that is not a dict, taken as {}
\*   unserialisable  data the record cannot be built or written from (a date
\*                   out of range, a lone surrogate): an exception
build_record(result) ==
  IF result.kind # "value" THEN "raise"
  ELSE CASE result.payload = "success" -> "record"
         [] result.payload \in {"nodata", "notdict"} -> "none"
         [] OTHER -> "raise"

\* the loop body of main(): st holds ok_count, skip_count, err_count, out and
\* pc; built is what build_record gave for appid
loop_body_raises(st, appid, built) ==
  CASE built = "none" -> [st EXCEPT !.skip_count = @ + 1]
    [] built = "record" -> [st EXCEPT !.out = write_line(@, appid), !.ok_count = @ + 1]
    [] OTHER -> [st EXCEPT !.pc = "aborted"]

loop_body(st, appid, built) ==
  CASE built = "none" -> [st EXCEPT !.skip_count = @ + 1]
    [] built = "record" -> [st EXCEPT !.out = write_line(@, appid), !.ok_count = @ + 1]
    [] OTHER -> [st EXCEPT !.err_count = @ + 1]

(***************************************************************************)
(* main() of fetch_store_raw.py and fetch_steamspy_raw.py.                 *)
(***************************************************************************)
NoLast == [appid |-> 0, kind |-> "none", payload |-> "none", requests |-> 0]

\* the script is started with a command line of A: parse_args(), the checks
\* of the arguments and limiter = RateLimiter(args.interval)
Start(A) ==
  /\ pc \in {"idle", "done", "aborted", "killed"}
  /\ \E a \in A :
       /\ args' = a
       /\ retries' = a.max_retries
       /\ chain0' = IF a.resume /\ args.resume THEN chain0
                    ELSE IF a.resume THEN out ELSE NoFile
       /\ requested' = IF a.resume /\ args.resume THEN requested ELSE {}
       /\ pc' = IF check_args(a) THEN "aborted" ELSE "loading"
       /\ min_interval' = IF check_args(a) THEN min_interval ELSE a.interval
  /\ nruns' = nruns + 1
  /\ appids' = <<>>
  /\ done_appids' = {}
  /\ idx' = 0
  /\ ok_count' = 0
  /\ skip_count' = 0
  /\ err_count' = 0
  /\ elapsed' = MaxElapsed
  /\ waited' = 0
  /\ gap' = 0
  /\ nwaits' = 0
  /\ last' = NoLast
  /\ UNCHANGED <<fetcher, url, call, ncalls, out, pruneVars, gamesVars>>

StartRun == nruns < MaxRuns /\ Start(Args)

\* all_appids = load_local_appids(...); appids = apply_index_range(...)
LoadIds ==
  /\ pc = "loading"
  /\ LET loaded == load_local_appids(args.appid_list)
         ranged == apply_index_range(loaded.appids, args.start_index,
                                     args.end_index, args.top_n)
     IN IF loaded.raised \/ ranged.raised
        THEN pc' = "aborted" /\ UNCHANGED appids
        ELSE pc' = "resuming" /\ appids' = ranged.appids
  /\ UNCHANGED <<args, done_appids, idx, ok_count, skip_count, err_count, out,
                 nruns, chain0, requested, last>>
  /\ UNCHANGED <<limiterVars, fetchVars, pruneVars, gamesVars>>

\* if args.resume: done_appids = load_done_appids_from_jsonl(out_path); ...
Resume ==
  /\ pc = "resuming"
  /\ LET scan == IF args.resume THEN load_done_appids_from_jsonl(out)
                 ELSE [raised |-> FALSE, done |-> {}]
     IN IF scan.raised
        THEN pc' = "aborted" /\ UNCHANGED <<appids, done_appids>>
        ELSE /\ pc' = "opening"
             /\ done_appids' = scan.done
             /\ appids' = pending(appids, scan.done)
  /\ UNCHANGED <<args, idx, ok_count, skip_count, err_count, out, nruns, chain0,
                 requested, last>>
  /\ UNCHANGED <<limiterVars, fetchVars, pruneVars, gamesVars>>

\* with out_path.open(write_mode, encoding="utf-8") as handle:
Open ==
  /\ pc = "opening"
  /\ out' = open_file(out, IF args.resume THEN "a" ELSE "w")
  /\ pc' = "running"
  /\ UNCHANGED <<args, appids, done_appids, idx, ok_count, skip_count, err_count,
                 nruns, chain0, requested, last>>
  /\ UNCHANGED <<limiterVars, fetchVars, pruneVars, gamesVars>>

\* one pass of `for appid in appids`
Iterate ==
  /\ pc = "running"
  /\ idx < Len(appids)
  /\ LET appid == appids[idx + 1] IN
     \E x \in http_get_json(call, Limiter, retries, appid, cooldown(fetcher),
                            min_interval) :
       LET st == loop_body([ok_count |-> ok_count, skip_count |-> skip_count,
                            err_count |-> err_count, out |-> out, pc |-> pc],
                           appid, build_record(x.call.result))
       IN /\ last' = [appid |-> appid, kind |-> x.call.result.kind,
                       payload |-> x.call.result.payload,
                       requests |-> x.call.requests]
          /\ SetLimiter(x.lim)
          /\ requested' = IF x.call.requests > 0 THEN requested \cup {appid}
                          ELSE requested
          /\ ok_count' = st.ok_count
          /\ skip_count' = st.skip_count
          /\ err_count' = st.err_count
          /\ out' = st.out
          /\ pc' = st.pc
  /\ idx' = idx + 1
  /\ UNCHANGED <<args, appids, done_appids, nruns, chain0>>
  /\ UNCHANGED <<fetcher, retries, url, call, ncalls, pruneVars, gamesVars>>

\* the loop is over: the handle is closed and the summary logged
Finish ==
  /\ pc = "running"
  /\ idx = Len(appids)
  /\ pc' = "done"
  /\ UNCHANGED <<args, appids, done_appids, idx, ok_count, skip_count, err_count,
                 out, nruns, chain0, requested, last>>
  /\ UNCHANGED <<limiterVars, fetchVars, pruneVars, gamesVars>>

\* the process is terminated from outside; what the handle had buffered of
\* the last record written may have reached the disk only in part
Terminate ==
  /\ pc \in {"loading", "resuming", "opening", "running"}
  /\ pc' = "killed"
  /\ \/ UNCHANGED out
     \/ /\ pc = "running"
        /\ ok_count > 0
        /\ \E part \in Parts : out' = cut_last_write(out, part)
  /\ UNCHANGED <<args, appids, done_appids, idx, ok_count, skip_count, err_count,
                 nruns, chain0, requested, last>>
  /\ UNCHANGED <<limiterVars, fetchVars, pruneVars, gamesVars>>

(***************************************************************************)
(* prune_store_payload of fetch_games.py.  A JSON value is a record:       *)
(*   tag "null", "number", "bool"                                          *)
(*   tag "string"  a string of len characters                              *)
(*   tag "array"   a list of len items, all alike: kids.item is one        *)
(*   tag "object"  a dict: kids maps its keys to their values              *)
(* Python's None is JSON null.                                             *)
(***************************************************************************)
NoKids == [k \in {} |-> 0]

Null == [tag |-> "null", len |-> 0, kids |-> NoKids]

EmptyObject == [tag |-> "object", len |-> 0, kids |-> NoKids]

EmptyArray == [tag |-> "array", len |-> 0, kids |-> NoKids]

\* store_pruned before the call
NotPruned == [tag |-> "unset", len |-> 0, kids |-> NoKids]

Keys == {"a", "b"}

Leaves ==
  {Null, [Null EXCEPT !.tag = "number"], [Null EXCEPT !.tag = "bool"]}
  \cup {[tag |-> "string", len |-> n, kids |-> NoKids] :
          n \in {1, MAX_STORE_STRING_LENGTH, MAX_STORE_STRING_LENGTH + 1}}

Arrays(V) ==
  {EmptyArray} \cup
  {[tag |-> "array", len |-> n, kids |-> [k \in {"item"} |-> v]] :
     n \in {1, MAX_STORE_LIST_LENGTH, MAX_STORE_LIST_LENGTH + 1}, v \in V}

Objects(V) ==
  {[tag |-> "object", len |-> 0, kids |-> f] : f \in UNION {[K -> V] : K \in SUBSET Keys}}

\* the payloads explored: objects of leaves, of lists of leaves and of
\* objects of leaves
StorePayloads == Objects(Leaves \cup Arrays(Leaves) \cup Objects(Leaves))

\* len(value) > MAX_...
too_long_or_at_cap(n, cap) == n >= cap

too_long(n, cap) == n > cap

RECURSIVE prune_store_payload(_)
prune_store_payload(value) ==
  LET kept == {k \in DOMAIN value.kids : prune_store_payload(value.kids[k]) # Null}
      cleaned == [k \in kept |-> prune_store_payload(value.kids[k])]
  IN CASE value.tag = "object" -> [value EXCEPT !.kids = cleaned]
       [] value.tag = "array" ->
            IF too_long(value.len, MAX_STORE_LIST_LENGTH) THEN Null
            ELSE IF kept = {} THEN EmptyArray
            ELSE [value EXCEPT !.kids = cleaned]
       [] value.tag = "string" ->
            IF too_long(value.len, MAX_STORE_STRING_LENGTH) THEN Null ELSE value
       [] OTHER -> value

\* store_pruned = prune_store_payload(store_one)
Prune ==
  /\ store_pruned = NotPruned
  /\ store_pruned' = prune_store_payload(store_one)
  /\ UNCHANGED <<store_one, payload>>
  /\ UNCHANGED gamesVars
  /\ UNCHANGED <<limiterVars, fetchVars, runVars>>

(***************************************************************************)
(* drop_blacklisted_fields of fetch_store_raw.py.  JSON values are the     *)
(* records above; here a key is the sequence of the pieces its text falls  *)
(* into at the dots ("name" is <<"name">>, "a.b" is <<"a", "b">>), a path  *)
(* the sequence of the pieces of ".".join(path_parts), and the items of a  *)
(* list sit under the empty key, as the code hands them the path of the    *)
(* list.                                                                   *)
(***************************************************************************)
FIELD_BLACKLIST ==
  {<<"data", "detailed_description">>, <<"data", "about_the_game">>,
   <<"data", "short_description">>, <<"data", "extended_description">>,
   <<"data", "legal_notice">>}

StoreLeaves ==
  {Null, [Null EXCEPT !.tag = "number"], [tag |-> "string", len |-> 1, kids |-> NoKids]}

StoreObjects(K, V) ==
  {[tag |-> "object", len |-> 0, kids |-> f] : f \in UNION {[J -> V] : J \in SUBSET K}}

StoreArrays(V) ==
  {EmptyArray} \cup {[tag |-> "array", len |-> 2, kids |-> [k \in {<<>>} |-> v]] : v \in V}

\* what the keys "data" and "data.about_the_game" of a payload may hold
StoreData ==
  LET inner == StoreObjects({<<"about_the_game">>, <<"name">>}, StoreLeaves)
  IN StoreLeaves \cup inner \cup StoreArrays(StoreLeaves \cup inner)

StoreOnes == StoreObjects({<<"data">>, <<"data", "about_the_game">>}, StoreData)

\* (*path_parts, str(key)) for a dict, path_parts for the items of a list
child_path_of_key_alone(path_parts, key) == key

child_path(path_parts, key) == path_parts \o key

RECURSIVE drop_blacklisted_fields(_, _, _)
drop_blacklisted_fields(value, blacklist, path_parts) ==
  LET child(k) == drop_blacklisted_fields(value.kids[k], blacklist,
                                          child_path(path_parts, k))
      kept == {k \in DOMAIN value.kids : child(k) # Null}
      out_kids == [k \in kept |-> child(k)]
  IN IF path_parts # <<>> /\ path_parts \in blacklist THEN Null
     ELSE CASE value.tag = "object" -> [value EXCEPT !.kids = out_kids]
            [] value.tag = "array" ->
                 IF kept = {} THEN EmptyArray ELSE [value EXCEPT !.kids = out_kids]
            [] OTHER -> value

\* payload = drop_blacklisted_fields(store_one, FIELD_BLACKLIST)
DropBlacklisted ==
  /\ payload = NotPruned
  /\ payload' = drop_blacklisted_fields(store_one, FIELD_BLACKLIST, <<>>)
  /\ UNCHANGED <<store_one, store_pruned>>
  /\ UNCHANGED <<limiterVars, fetchVars, runVars, gamesVars>>

(***************************************************************************)
(* The loop of main() of fetch_games.py: build_raw_record asks the store,  *)
(* then SteamSpy, each through http_get_json of fetch_games, which picks   *)
(* the limiter by the url.  x.call are the locals of one http_get_json     *)
(* call, x.now the clock and x.lims the three limiters.                    *)
(***************************************************************************)
StoreUrl == [host |-> "store.steampowered.com", request |-> ""]

SpyUrl == [host |-> "steamspy.com", request |-> "appdetails"]

RECURSIVE games_fetch_steps(_, _, _, _)
games_fetch_steps(X, n, u, k) ==
  IF k = 0 THEN X
  ELSE games_fetch_steps(
         {x \in X : x.call.state # "loop"} \cup
         {LET c == http_loop(http_attempt(x.call, resp, GAMES_COOLDOWN, 0, 0), n, u)
              l == choose_limiter(u).limiter
              t == x.now + wait(x.lims[l].min_interval, x.now - x.lims[l].last_ts, 0).slept
          IN [call |-> c, now |-> t + c.sleep_for,
              lims |-> [x.lims EXCEPT ![l].last_ts = t]] :
            x \in {y \in X : y.call.state = "loop"}, resp \in Responses},
         n, u, k - 1)

games_http_get_json(t, lims, n, u) ==
  games_fetch_steps({[call |-> http_loop(new_call(IdleCall), n, u), now |-> t,
                      lims |-> lims]}, n, u, n)

\* the ways build_raw_record(appid) and the write of its record can go:
\* store and spy are the two http_get_json calls (spy is IdleCall when
\* fetch_spy_details is not reached), built is "none" for `return None`,
\* "record" for a record that is written and "raise" for an exception
build_raw_record_asks_both(t, lims, n) ==
  UNION {{[store |-> x.call, spy |-> y.call, now |-> y.now, lims |-> y.lims,
           built |-> IF x.call.result.kind # "value" \/ y.call.result.kind # "value"
                     THEN "raise"
                     ELSE IF x.call.result.payload \in {"nodata", "notdict"} THEN "none"
                     ELSE IF "unserialisable" \in {x.call.result.payload,
                                                   y.call.result.payload}
                     THEN "raise" ELSE "record"] :
            y \in games_http_get_json(x.now, x.lims, n, SpyUrl)} :
         x \in games_http_get_json(t, lims, n, StoreUrl)}

build_raw_record(t, lims, n) ==
  UNION {IF x.call.result.kind # "value"
         THEN {[store |-> x.call, spy |-> IdleCall, now |-> x.now, lims |-> x.lims,
                built |-> "raise"]}
         ELSE IF x.call.result.payload \in {"nodata", "notdict"}
         THEN {[store |-> x.call, spy |-> IdleCall, now |-> x.now, lims |-> x.lims,
                built |-> "none"]}
         ELSE {[store |-> x.call, spy |-> y.call, now |-> y.now, lims |-> y.lims,
                built |-> IF y.call.result.kind # "value" THEN "raise"
                          ELSE IF "unserialisable" \in {x.call.result.payload,
                                                        y.call.result.payload}
                          THEN "raise" ELSE "record"] :
                 y \in games_http_get_json(x.now, x.lims, n, SpyUrl)} :
         x \in games_http_get_json(t, lims, n, StoreUrl)}

\* one pass of `for appid in appids` of fetch_games: last is the store call
\* and call the SteamSpy call of the pass
IterateGames ==
  /\ pc = "running"
  /\ idx < Len(appids)
  /\ LET appid == appids[idx + 1] IN
     \E b \in build_raw_record(now, limiters, retries) :
       LET st == loop_body([ok_count |-> ok_count, skip_count |-> skip_count,
                            err_count |-> err_count, out |-> out, pc |-> pc],
                           appid, b.built)
       IN /\ last' = [appid |-> appid, kind |-> b.store.result.kind,
                       payload |-> b.store.result.payload,
                       requests |-> b.store.requests]
          /\ call' = b.spy
          /\ now' = b.now
          /\ limiters' = b.lims
          /\ requested' = requested \cup {appid}
          /\ ok_count' = st.ok_count
          /\ skip_count' = st.skip_count
          /\ err_count' = st.err_count
          /\ out' = st.out
          /\ pc' = st.pc
  /\ idx' = idx + 1
  /\ UNCHANGED <<args, appids, done_appids, nruns, chain0, chosen>>
  /\ UNCHANGED <<fetcher, retries, url, ncalls>>
  /\ UNCHANGED <<limiterVars, pruneVars>>

\* the pending lists the loop of fetch_games is run on
GamesLists == {<<>>, <<1>>, <<2, 1>>}

\* the loop of fetch_games is over
FinishGames ==
  /\ fetcher = "fetch_games"
  /\ Finish

(***************************************************************************)
(* Specifications.                                                         *)
(***************************************************************************)
\* one RateLimiter under arbitrary delays; nothing else runs
InitLimiter ==
  /\ min_interval \in Intervals
  /\ elapsed \in 0..MaxElapsed     \* _last_ts = 0.0, the clock reads anything
  /\ waited = 0
  /\ gap = 0
  /\ nwaits = 0
  /\ fetcher = "fetch_common"
  /\ retries = 1
  /\ url = 0
  /\ call = IdleCall
  /\ ncalls = 0
  /\ pc = "idle"
  /\ args = NoArgs
  /\ appids = <<>>
  /\ done_appids = {}
  /\ idx = 0
  /\ ok_count = 0
  /\ skip_count = 0
  /\ err_count = 0
  /\ out = NoFile
  /\ nruns = 0
  /\ chain0 = NoFile
  /\ requested = {}
  /\ last = NoLast
  /\ store_one = EmptyObject
  /\ store_pruned = NotPruned
  /\ payload = NotPruned
  /\ now = 0
  /\ limiters = NoLimiters
  /\ chosen = NoChoice

NextLimiter == Pass \/ Wait

SpecLimiter == InitLimiter /\ [][NextLimiter]_vars

\* calls of http_get_json in a row, on a limiter made by a process that has
\* been up for a while
InitFetch ==
  /\ fetcher \in {"fetch_common", "fetch_games"}
  /\ min_interval = (IF fetcher = "fetch_games" THEN GAMES_STEAMSPY_INTERVAL
                     ELSE STORE_INTERVAL)
  /\ elapsed = MaxElapsed
  /\ waited = 0
  /\ gap = 0
  /\ nwaits = 0
  /\ retries \in 1..MaxRetries       \* main() rejects max_retries <= 0
  /\ url = 0
  /\ call = IdleCall
  /\ ncalls = 0
  /\ pc = "idle"
  /\ args = NoArgs
  /\ appids = <<>>
  /\ done_appids = {}
  /\ idx = 0
  /\ ok_count = 0
  /\ skip_count = 0
  /\ err_count = 0
  /\ out = NoFile
  /\ nruns = 0
  /\ chain0 = NoFile
  /\ requested = {}
  /\ last = NoLast
  /\ store_one = EmptyObject
  /\ store_pruned = NotPruned
  /\ payload = NotPruned
  /\ now = 0
  /\ limiters = NoLimiters
  /\ chosen = NoChoice

NextFetch == CallFetch \/ Attempt

SpecFetch == InitFetch /\ [][NextFetch]_vars

\* runs of main() of fetch_store_raw.py in a row on one output path
InitRun ==
  /\ min_interval = STORE_INTERVAL
  /\ elapsed = MaxElapsed
  /\ waited = 0
  /\ gap = 0
  /\ nwaits = 0
  /\ fetcher = "fetch_common"
  /\ retries = 1
  /\ url = 0
  /\ call = IdleCall
  /\ ncalls = 0
  /\ pc = "idle"
  /\ args = NoArgs
  /\ appids = <<>>
  /\ done_appids = {}
  /\ idx = 0
  /\ ok_count = 0
  /\ skip_count = 0
  /\ err_count = 0
  /\ out = NoFile
  /\ nruns = 0
  /\ chain0 = NoFile
  /\ requested = {}
  /\ last = NoLast
  /\ store_one = EmptyObject
  /\ store_pruned = NotPruned
  /\ payload = NotPruned
  /\ now = 0
  /\ limiters = NoLimiters
  /\ chosen = NoChoice

NextRun == StartRun \/ LoadIds \/ Resume \/ Open \/ Iterate \/ Finish \/ Terminate

SpecRun == InitRun /\ [][NextRun]_vars

\* output files that earlier runs may have left
LeftFiles ==
  {NoFile,
   [exists |-> TRUE, lines |-> <<(<<[appid |-> 1, part |-> "whole"]>>)>>, tail |-> <<>>],
   [exists |-> TRUE, lines |-> <<(<<[appid |-> 1, part |-> "whole"]>>)>>,
    tail |-> <<[appid |-> 2, part |-> "prefix"]>>]}

\* one run of main() over such a file
InitSingleRun ==
  /\ min_interval = STORE_INTERVAL
  /\ elapsed = MaxElapsed
  /\ waited = 0
  /\ gap = 0
  /\ nwaits = 0
  /\ fetcher = "fetch_common"
  /\ retries = 1
  /\ url = 0
  /\ call = IdleCall
  /\ ncalls = 0
  /\ pc = "idle"
  /\ args = NoArgs
  /\ appids = <<>>
  /\ done_appids = {}
  /\ idx = 0
  /\ ok_count = 0
  /\ skip_count = 0
  /\ err_count = 0
  /\ out \in LeftFiles
  /\ nruns = 0
  /\ chain0 = NoFile
  /\ requested = {}
  /\ last = NoLast
  /\ store_one = EmptyObject
  /\ store_pruned = NotPruned
  /\ payload = NotPruned
  /\ now = 0
  /\ limiters = NoLimiters
  /\ chosen = NoChoice

StartOnly == nruns = 0 /\ Start(Args)

NextSingleRun == StartOnly \/ LoadIds \/ Resume \/ Open \/ Iterate \/ Finish \/ Terminate

SpecSingleRun == InitSingleRun /\ [][NextSingleRun]_vars

\* output files that may be there when such a run starts: those, and one
\* whose last record was cut inside a multi-byte character
CheckedFiles ==
  LeftFiles \cup
  {[exists |-> TRUE, lines |-> <<(<<[appid |-> 1, part |-> "whole"]>>)>>,
    tail |-> <<[appid |-> 2, part |-> "midchar"]>>]}

\* one run of main() on any command line, good or bad
InitChecked ==
  /\ min_interval = STORE_INTERVAL
  /\ elapsed = MaxElapsed
  /\ waited = 0
  /\ gap = 0
  /\ nwaits = 0
  /\ fetcher = "fetch_common"
  /\ retries = 1
  /\ url = 0
  /\ call = IdleCall
  /\ ncalls = 0
  /\ pc = "idle"
  /\ args = NoArgs
  /\ appids = <<>>
  /\ done_appids = {}
  /\ idx = 0
  /\ ok_count = 0
  /\ skip_count = 0
  /\ err_count = 0
  /\ out \in CheckedFiles
  /\ nruns = 0
  /\ chain0 = NoFile
  /\ requested = {}
  /\ last = NoLast
  /\ store_one = EmptyObject
  /\ store_pruned = NotPruned
  /\ payload = NotPruned
  /\ now = 0
  /\ limiters = NoLimiters
  /\ chosen = NoChoice

StartChecked == nruns = 0 /\ Start(AnyArgs)

NextChecked == StartChecked \/ LoadIds \/ Resume \/ Open \/ Iterate \/ Finish \/ Terminate

SpecChecked == InitChecked /\ [][NextChecked]_vars

\* main() up to the identifier list, on any appid-list document
InitLoad ==
  /\ min_interval = STORE_INTERVAL
  /\ elapsed = MaxElapsed
  /\ waited = 0
  /\ gap = 0
  /\ nwaits = 0
  /\ fetcher = "fetch_common"
  /\ retries = 1
  /\ url = 0
  /\ call = IdleCall
  /\ ncalls = 0
  /\ pc = "idle"
  /\ args = NoArgs
  /\ appids = <<>>
  /\ done_appids = {}
  /\ idx = 0
  /\ ok_count = 0
  /\ skip_count = 0
  /\ err_count = 0
  /\ out = NoFile
  /\ nruns = 0
  /\ chain0 = NoFile
  /\ requested = {}
  /\ last = NoLast
  /\ store_one = EmptyObject
  /\ store_pruned = NotPruned
  /\ payload = NotPruned
  /\ now = 0
  /\ limiters = NoLimiters
  /\ chosen = NoChoice

StartLoad == nruns = 0 /\ Start(LoadArgs)

NextLoad == StartLoad \/ LoadIds

SpecLoad == InitLoad /\ [][NextLoad]_vars

\* prune_store_payload on any of the payloads
InitPrune ==
  /\ min_interval = STORE_INTERVAL
  /\ elapsed = MaxElapsed
  /\ waited = 0
  /\ gap = 0
  /\ nwaits = 0
  /\ fetcher = "fetch_games"
  /\ retries = 1
  /\ url = 0
  /\ call = IdleCall
  /\ ncalls = 0
  /\ pc = "idle"
  /\ args = NoArgs
  /\ appids = <<>>
  /\ done_appids = {}
  /\ idx = 0
  /\ ok_count = 0
  /\ skip_count = 0
  /\ err_count = 0
  /\ out = NoFile
  /\ nruns = 0
  /\ chain0 = NoFile
  /\ requested = {}
  /\ last = NoLast
  /\ store_one \in StorePayloads
  /\ store_pruned = NotPruned
  /\ payload = NotPruned
  /\ now = 0
  /\ limiters = NoLimiters
  /\ chosen = NoChoice

NextPrune == Prune

SpecPrune == InitPrune /\ [][NextPrune]_vars

\* drop_blacklisted_fields on any of the store payloads
InitBlacklist ==
  /\ min_interval = STORE_INTERVAL
  /\ elapsed = MaxElapsed
  /\ waited = 0
  /\ gap = 0
  /\ nwaits = 0
  /\ fetcher = "fetch_common"
  /\ retries = 1
  /\ url = 0
  /\ call = IdleCall
  /\ ncalls = 0
  /\ pc = "idle"
  /\ args = NoArgs
  /\ appids = <<>>
  /\ done_appids = {}
  /\ idx = 0
  /\ ok_count = 0
  /\ skip_count = 0
  /\ err_count = 0
  /\ out = NoFile
  /\ nruns = 0
  /\ chain0 = NoFile
  /\ requested = {}
  /\ last = NoLast
  /\ store_one \in StoreOnes
  /\ store_pruned = NotPruned
  /\ payload = NotPruned
  /\ now = 0
  /\ limiters = NoLimiters
  /\ chosen = NoChoice

NextBlacklist == DropBlacklisted

SpecBlacklist == InitBlacklist /\ [][NextBlacklist]_vars

\* the limiters of fetch_games after main() has set their intervals
InitGames ==
  /\ min_interval = STORE_INTERVAL
  /\ elapsed = MaxElapsed
  /\ waited = 0
  /\ gap = 0
  /\ nwaits = 0
  /\ fetcher = "fetch_games"
  /\ retries = 1
  /\ url = 0
  /\ call = IdleCall
  /\ ncalls = 0
  /\ pc = "idle"
  /\ args = NoArgs
  /\ appids = <<>>
  /\ done_appids = {}
  /\ idx = 0
  /\ ok_count = 0
  /\ skip_count = 0
  /\ err_count = 0
  /\ out = NoFile
  /\ nruns = 0
  /\ chain0 = NoFile
  /\ requested = {}
  /\ last = NoLast
  /\ store_one = EmptyObject
  /\ store_pruned = NotPruned
  /\ payload = NotPruned
  /\ now \in {0, STORE_INTERVAL}      \* the clock reads anything
  /\ \E a \in SpyAllIntervals :
       limiters = [l \in LimiterNames |->
                     [min_interval |-> CASE l = "store_limiter" -> STORE_INTERVAL
                                         [] l = "steamspy_limiter" -> GAMES_STEAMSPY_INTERVAL
                                         [] OTHER -> a,
                      last_ts |-> 0]]
  /\ chosen = NoChoice

NextGames == GamesWait \/ GamesPass

SpecGames == InitGames /\ [][NextGames]_vars

\* main() of fetch_games as it enters its loop, the output file just
\* opened with "w"
InitGamesRun ==
  /\ min_interval = STORE_INTERVAL
  /\ elapsed = MaxElapsed
  /\ waited = 0
  /\ gap = 0
  /\ nwaits = 0
  /\ fetcher = "fetch_games"
  /\ retries \in 1..STORE_MAX_RETRIES
  /\ url = 0
  /\ call = IdleCall
  /\ ncalls = 0
  /\ pc = "running"
  /\ args = NoArgs
  /\ appids \in GamesLists
  /\ done_appids = {}
  /\ idx = 0
  /\ ok_count = 0
  /\ skip_count = 0
  /\ err_count = 0
  /\ out = open_file(NoFile, "w")
  /\ nruns = 1
  /\ chain0 = NoFile
  /\ requested = {}
  /\ last = NoLast
  /\ store_one = EmptyObject
  /\ store_pruned = NotPruned
  /\ payload = NotPruned
  /\ now = STORE_INTERVAL
  /\ limiters = [l \in LimiterNames |->
                   [min_interval |-> CASE l = "store_limiter" -> STORE_INTERVAL
                                       [] l = "steamspy_limiter" -> GAMES_STEAMSPY_INTERVAL
                                       [] OTHER -> STEAMSPY_INTERVAL,
                    last_ts |-> 0]]
  /\ chosen = NoChoice

NextGamesRun == IterateGames \/ FinishGames

SpecGamesRun == InitGamesRun /\ [][NextGamesRun]_vars

(***************************************************************************)
(* Properties.                                                             *)
(***************************************************************************)
\* C1: the returns of any two consecutive wait() calls on one limiter are at
\* least min_interval apart, whatever the delay between the calls.
C1_ConsecutiveWaitsSpaced == nwaits = 2 => gap >= min_interval

C1_Witness == nwaits = 2 /\ waited > 0 /\ gap = min_interval

\* a step in which the running call issues one more HTTP request
RequestStep == call'.requests = call.requests + 1

\* an attempt ending in one of the five listed statuses or in a 2xx body
\* that is not JSON
Retryable(resp) ==
  \/ resp.kind = "HTTPError" /\ resp.code \in {429, 500, 502, 503, 504}
  \/ resp.kind = "ok" /\ ~resp.json

\* a transient failure: those, and the transport-level failures (connection
\* error, DNS failure, timeout)
TransientFailure(resp) ==
  Retryable(resp) \/ resp.kind \in {"URLError", "TimeoutError"}

Exhausted(c) ==
  /\ c.state = "raised"
  /\ c.result.kind = "RuntimeError"
  /\ c.result.url = url
  /\ c.result.retries = retries

\* C6: a fetch call issues at most max_retries requests; when every attempt
\* ends in a transient failure it issues exactly max_retries requests (an
\* attempt that fails so is followed by the next one while any remains) and
\* then fails with an error naming the url and the attempt count.
C6_RetryBound ==
  /\ [](call.requests <= retries)
  /\ [](call.result.kind = "RuntimeError" => call.requests = retries /\ Exhausted(call))
  /\ [][(RequestStep /\ TransientFailure(call'.response))
         => IF call'.requests < retries
            THEN call'.state = "loop" /\ call'.result.kind = "none"
            ELSE Exhausted(call')]_vars

\* C7: a non-2xx status outside {429, 500, 502, 503, 504} is fatal for the
\* call: the error propagates at once, with no backoff sleep and no further
\* request, even when attempts remain.
C7_FatalStatus ==
  /\ [][(RequestStep /\ call'.response.kind = "HTTPError"
            /\ call'.response.code \notin {429, 500, 502, 503, 504})
         => /\ call'.state = "raised"
            /\ call'.result.kind = "HTTPError"
            /\ call'.result.code = call'.response.code
            /\ call'.nsleeps = call.nsleeps
            /\ call'.sleep_for = 0]_vars
  /\ [][call.state = "raised" => ~RequestStep]_vars

C7_Witness ==
  /\ call.state = "raised"
  /\ call.result.kind = "HTTPError"
  /\ call.result.code = 404
  /\ call.requests < retries
  /\ call.nsleeps = 0

\* C8: every transport-level failure of an attempt (connection error, DNS
\* failure, timeout at any point before the body is read) is transient: the
\* fetch sleeps, doubles backoff and goes on to the next attempt if one
\* remains, and does not propagate the failure.
C8_TransportTransient ==
  [][(RequestStep /\ call'.response.kind \in {"URLError", "TimeoutError"})
     => /\ call'.nsleeps = call.nsleeps + 1
        /\ call'.backoff = 2 * call.backoff
        /\ call'.result.kind \in {"none", "RuntimeError"}
        /\ (call'.requests < retries => call'.state = "loop")]_vars

\* C9: an attempt ending in 429, 500, 502, 503 or 504, or in a 2xx whose
\* body is not JSON, is followed by exactly one backoff sleep, backoff is
\* doubled, and the next attempt is made if attempts remain.
C9_RetryableTransient ==
  [][(RequestStep /\ Retryable(call'.response))
     => /\ call'.nsleeps = call.nsleeps + 1
        /\ call'.sleep_for >= call.backoff
        /\ call'.backoff = 2 * call.backoff
        /\ IF call'.requests < retries
           THEN call'.state = "loop"
           ELSE Exhausted(call')]_vars

C9_Witness ==
  /\ call.state = "loop"
  /\ call.nsleeps = 2
  /\ call.response.kind = "HTTPError"
  /\ call.response.code = 502
  /\ call.backoff = 4 * BACKOFF_START

RECURSIVE Pow2(_)
Pow2(k) == IF k <= 0 THEN 1 ELSE 2 * Pow2(k - 1)

\* the k-th backoff sleep of a call is computed from backoff 1.0 * 2^(k-1),
\* and a call enters its loop with backoff 1.0
BackoffDoubles ==
  /\ [](call.state = "loop" /\ call.attempt = 0 => call.backoff = BACKOFF_START)
  /\ [][(RequestStep /\ call'.nsleeps = call.nsleeps + 1)
         => call'.used = BACKOFF_START * Pow2(call'.nsleeps - 1)]_vars

\* C10 as claimed: the k-th sleep is computed from 1.0 * 2^(k-1), every
\* sleep is that backoff plus a jitter in [0, 0.5), and a new call starts
\* at 1.0.
C10_AsClaimed ==
  /\ BackoffDoubles
  /\ [](call.sleep_for > 0 => (call.sleep_for - call.used) \in 0..(JITTER - 1))

\* C10 amended: as claimed, except that after a non-JSON 2xx body holding
\* "Too many connections" the sleep is the larger of backoff plus jitter and
\* the cooldown (60 s in fetch_common, 5 s in fetch_games) plus [0, 2.0).
C10_Backoff ==
  /\ BackoffDoubles
  /\ [](call.sleep_for > 0 =>
          \E j \in 0..(JITTER - 1) :
            IF call.response.marker
            THEN \E cj \in 0..(COOLDOWN_JITTER - 1) :
                   call.sleep_for = Max(call.used + j, cooldown(fetcher) + cj)
            ELSE call.sleep_for = call.used + j)

C10_Witness ==
  /\ ncalls = 2
  /\ call.nsleeps = 2
  /\ call.used = 2 * BACKOFF_START
  /\ call.response.marker
  /\ call.response.kind = "ok"

\* C11: in both fetchers, after a 2xx body that is not JSON and holds "Too
\* many connections" the sleep before the next attempt is at least 10 s
\* (BACKOFF_START is 1.0 s), whatever the backoff.
C11_CooldownFloor ==
  [][(RequestStep /\ call'.response.kind = "ok" /\ ~call'.response.json
        /\ call'.response.marker)
     => call'.sleep_for >= 10 * BACKOFF_START]_vars

\* C12: the first attempt that gives a 2xx status and a body that parses as
\* JSON ends the call: the parsed value is returned, no backoff sleep is
\* taken and no further request is issued for the call.
C12_SuccessReturns ==
  /\ [][(RequestStep /\ call'.response.kind = "ok" /\ call'.response.json)
         => /\ call'.state = "returned"
            /\ call'.result.kind = "value"
            /\ call'.result.payload = call'.response.payload
            /\ call'.nsleeps = call.nsleeps
            /\ call'.sleep_for = 0
            /\ call'.backoff = call.backoff]_vars
  /\ [][call.state = "returned" => ~RequestStep]_vars

C12_Witness ==
  /\ call.state = "returned"
  /\ call.result.kind = "value"
  /\ call.result.payload = "success"
  /\ call.requests = 2
  /\ call.requests < retries
  /\ call.nsleeps = 1

\* the appids that have a line of their own holding their whole record
WellFormedIds(f) ==
  {f.lines[k][1].appid :
     k \in {i \in 1..Len(f.lines) : Len(f.lines[i]) = 1 /\ f.lines[i][1].part = "whole"}}

HeldIds(f) ==
  WellFormedIds(f) \cup
  (IF Len(f.tail) = 1 /\ f.tail[1].part = "whole" THEN {f.tail[1].appid} ELSE {})

\* the lines of f that hold the whole record of appid i
RecordLines(f, i) ==
  {k \in 1..Len(AllLines(f)) :
     \E j \in 1..Len(AllLines(f)[k]) :
       AllLines(f)[k][j] = [appid |-> i, part |-> "whole"]}

OneRecordEach(f) == \A i \in 1..MaxAppid : Cardinality(RecordLines(f, i)) <= 1

\* C2: resumed runs in a row over a file holding records for a set D never
\* request an identifier of D, and the final file holds no identifier on
\* two lines.
C2_ResumeIdempotent ==
  (args.resume /\ pc \in {"running", "done"} /\ OneRecordEach(chain0))
  => /\ requested \cap HeldIds(chain0) = {}
     /\ (pc = "done" => OneRecordEach(out))

\* C3: whatever runs, terminations in the middle of an append and resumed
\* runs there were, no line of the file holds (part of) more than one record.
C3_CorruptionConfined ==
  \A k \in 1..Len(AllLines(out)) : Len(AllLines(out)[k]) <= 1

TruncatedLast(f) ==
  /\ f.exists
  /\ Len(f.tail) = 1
  /\ f.tail[1].part # "whole"
  /\ \A k \in 1..Len(f.lines) : Len(f.lines[k]) = 1 /\ f.lines[k][1].part = "whole"

\* C4: on a file whose last line is a cut, unparseable piece of a record the
\* scan returns the identifiers of the well-formed lines before it and does
\* not raise, wherever the cut fell.
C4_TruncatedLastLine ==
  TruncatedLast(out)
  => /\ ~load_done_appids_from_jsonl(out).raised
     /\ load_done_appids_from_jsonl(out).done = WellFormedIds(out)

\* a step of the loop that resolves one identifier
LoopStep == pc = "running" /\ idx' = idx + 1

Isolated ==
  /\ err_count' = err_count + 1
  /\ ok_count' = ok_count
  /\ skip_count' = skip_count
  /\ out' = out
  /\ pc' = "running"

\* the run gets through the whole list unless it is terminated from outside:
\* in RUNNING the loop always has a next step, every step that stays in
\* RUNNING moves on by one identifier of the finite list, nothing but the
\* end of the list and a termination leaves RUNNING, and DONE is entered with
\* every pending identifier counted
RunsToDone ==
  /\ [](pc = "running" => ENABLED Iterate \/ ENABLED Finish)
  /\ [][pc = "running" /\ pc' = "running" => idx' = idx + 1 /\ idx' <= Len(appids)]_vars
  /\ [][pc = "running" => pc' \in {"running", "done", "killed"}]_vars
  /\ [](pc = "done" => idx = Len(appids) /\ ok_count + skip_count + err_count = idx)

\* C5 as claimed: in RUNNING a fatal HTTP status, an exhausted retry budget
\* or an unexpected payload shape for one identifier adds one to err, writes
\* no line, and the loop goes on; the run reaches DONE with every pending
\* identifier visited (unless the process is terminated).
C5_AsClaimed ==
  /\ RunsToDone
  /\ [][(LoopStep /\ (last'.kind \in {"HTTPError", "RuntimeError"}
                        \/ last'.payload = "notdict")) => Isolated]_vars

\* C5 amended: every exception of the fetch or of building and writing the
\* record (fatal status, exhausted budget, an error http_get_json lets
\* through, data the record cannot be built or written from) adds one to
\* err, writes no line, and the loop goes on; a payload that is not a dict
\* raises nothing and is counted as skip, with no line; the run reaches
\* DONE with every pending identifier visited (unless the process is
\* terminated).
C5_Isolation ==
  /\ RunsToDone
  /\ [][(LoopStep /\ (last'.kind \in {"HTTPError", "RuntimeError", "TimeoutError"}
                        \/ last'.payload = "unserialisable")) => Isolated]_vars
  /\ [][(LoopStep /\ last'.payload = "notdict")
         => /\ skip_count' = skip_count + 1
            /\ err_count' = err_count
            /\ ok_count' = ok_count
            /\ out' = out
            /\ pc' = "running"]_vars

C5_Witness ==
  /\ pc = "done"
  /\ Len(appids) = 2
  /\ err_count = 1
  /\ ok_count = 1
  /\ last.kind = "value"
  /\ last.payload = "success"

\* a command line the run is to refuse
InvalidConfig(a) ==
  \/ a.interval <= 0
  \/ a.max_retries <= 0
  \/ a.timeout <= 0
  \/ a.start_index < 0
  \/ (a.end_index # -1 /\ a.end_index < a.start_index)
  \/ a.top_n < 0
  \/ ~a.appid_list.exists
  \/ a.appid_list.shape \notin {"object", "array"}

\* C13: an invalid configuration value (interval, retry bound or timeout
\* <= 0, negative start index, end index below the start index other than
\* -1, negative cap) or a missing or wrongly shaped identifier-list file
\* aborts the run before the first HTTP request.
C13_InvalidConfigAborts ==
  /\ [](nruns > 0 /\ InvalidConfig(args)
          => /\ pc \in {"loading", "aborted", "killed"}
             /\ requested = {}
             /\ last = NoLast
             /\ idx = 0)
  /\ [][(nruns > 0 /\ InvalidConfig(args) /\ pc = "loading" /\ pc' # "killed")
         => pc' = "aborted"]_vars

C13_Witness ==
  /\ pc = "aborted"
  /\ args.interval = 0
  /\ args.appid_list.exists
  /\ args.appid_list.shape = "array"
  /\ args.start_index = 0
  /\ args.end_index = -1

\* C14: the sequence the run iterates over holds no identifier twice, even
\* when the identifier-list document names one more than once.
C14_NoDuplicates ==
  pc = "resuming" => \A i, j \in 1..Len(appids) : i # j => appids[i] # appids[j]

\* the integers of the entries int() accepts, in the order of the list
RECURSIVE Coerced(_)
Coerced(items) ==
  IF items = <<>> THEN <<>>
  ELSE (IF Head(items).kind = "bad" THEN <<>> ELSE <<Head(items).val>>)
       \o Coerced(Tail(items))

\* C15: load_local_appids gives the same ordered integer sequence for
\* {"appids": L} and for the bare array L, whatever integers, int-coercible
\* strings and non-coercible entries (dropped) L holds; a document of
\* neither shape fails with a format error.
C15_ShapeIndependent ==
  /\ [](pc = "resuming" =>
          LET d == args.appid_list IN
          /\ d.exists /\ d.shape \in {"object", "array"}
          /\ appids = Coerced(d.items)
          /\ load_local_appids([d EXCEPT !.shape = "object"])
               = load_local_appids([d EXCEPT !.shape = "array"]))
  /\ [][(pc = "loading" /\ args.appid_list.exists
           /\ args.appid_list.shape \in {"object", "array"})
         => pc' = "resuming"]_vars
  /\ [][(pc = "loading" /\ args.appid_list.shape \notin {"object", "array"})
         => pc' = "aborted" /\ appids' = <<>>]_vars

C15_Witness ==
  /\ pc = "resuming"
  /\ args.appid_list.shape = "array"
  /\ args.appid_list.items = <<[kind |-> "str", val |-> 2], [kind |-> "bad", val |-> 0]>>
  /\ appids = <<2>>

\* ids without the members of done, in the same order
RECURSIVE Without(_, _)
Without(ids, done) ==
  IF ids = <<>> THEN <<>>
  ELSE (IF Head(ids) \in done THEN <<>> ELSE <<Head(ids)>>) \o Without(Tail(ids), done)

LineIds(f) == {f.lines[k][1].appid : k \in 1..Len(f.lines)}

\* C17: in a run without resume where every fetch succeeds, an identifier
\* the source reports success for adds one to ok and one line keyed by it,
\* one it reports no data for adds one to skip and no line; at the end the
\* file holds exactly |S| lines, one for each identifier of S, and the
\* summary is ok = |S|, skip = |F|, err = 0.
C17_Accounting ==
  /\ [][(LoopStep /\ ~args.resume /\ last'.kind = "value" /\ last'.payload = "success")
         => /\ ok_count' = ok_count + 1
            /\ skip_count' = skip_count /\ err_count' = err_count
            /\ out'.lines = Append(out.lines, <<[appid |-> last'.appid, part |-> "whole"]>>)]_vars
  /\ [][(LoopStep /\ ~args.resume /\ last'.kind = "value" /\ last'.payload = "nodata")
         => /\ skip_count' = skip_count + 1
            /\ ok_count' = ok_count /\ err_count' = err_count
            /\ out' = out]_vars
  /\ [](pc = "done" /\ ~args.resume
          => /\ Len(out.lines) = ok_count
             /\ out.tail = <<>>
             /\ \A k \in 1..Len(out.lines) : one_record(out.lines[k])
             /\ ok_count = Cardinality(LineIds(out))
             /\ ok_count + skip_count + err_count = Len(appids))

\* the content of f as one sequence: the pieces of each line, each line
\* ended by a newline
RECURSIVE Joined(_)
Joined(lines) ==
  IF lines = <<>> THEN <<>>
  ELSE Head(lines) \o <<[appid |-> 0, part |-> "newline"]>> \o Joined(Tail(lines))

Bytes(f) == Joined(f.lines) \o f.tail

IsPrefix(a, b) == Len(a) <= Len(b) /\ SubSeq(b, 1, Len(a)) = a

\* C18: with resume what the file held when the run began stays as it is
\* and records are only added after it; without resume the file is
\* truncated, and at DONE holds the records this run wrote and nothing
\* else; while the loop runs the file only grows at its end.
C18_OpenMode ==
  /\ [](nruns > 0 /\ args.resume => IsPrefix(Bytes(chain0), Bytes(out)))
  /\ [](pc = "done" /\ ~args.resume
          => /\ Len(out.lines) = ok_count
             /\ out.tail = <<>>
             /\ \A k \in 1..Len(out.lines) :
                  /\ one_record(out.lines[k])
                  /\ \E i \in 1..Len(appids) : appids[i] = out.lines[k][1].appid)
  /\ [][(pc = "opening" /\ pc' = "running")
         => out' = (IF args.resume THEN [out EXCEPT !.exists = TRUE] ELSE
                    [exists |-> TRUE, lines |-> <<>>, tail |-> <<>>])]_vars
  /\ [][(pc = "running" /\ pc' # "killed") => IsPrefix(Bytes(out), Bytes(out'))]_vars

C18_Witness ==
  /\ pc = "done"
  /\ args.resume
  /\ chain0.tail # <<>>
  /\ ok_count = 1
  /\ Len(Bytes(out)) > Len(Bytes(chain0))

OverCap(v) ==
  \/ v.tag = "string" /\ v.len > MAX_STORE_STRING_LENGTH
  \/ v.tag = "array" /\ v.len > MAX_STORE_LIST_LENGTH

\* the caps on the keys of object v, c being what became of v, and on the
\* objects inside
RECURSIVE CapsHeld(_, _)
CapsHeld(v, c) ==
  \A k \in DOMAIN v.kids :
    LET x == v.kids[k] IN
    /\ OverCap(x) => k \notin DOMAIN c.kids
    /\ (x.tag = "string" /\ x.len = MAX_STORE_STRING_LENGTH)
         => k \in DOMAIN c.kids /\ c.kids[k] = x
    /\ (x.tag = "array" /\ x.len = MAX_STORE_LIST_LENGTH)
         => k \in DOMAIN c.kids /\ c.kids[k].tag = "array"
    /\ (x.tag = "object" /\ k \in DOMAIN c.kids) => CapsHeld(x, c.kids[k])

\* C19: a string longer than the cap of 600 characters makes its key absent
\* from the output and one of exactly 600 is kept unchanged; a list longer
\* than the cap of 200 is dropped and one of exactly 200 is kept.
C19_SizeCap ==
  store_pruned # NotPruned
  => /\ store_pruned.tag = "object"
     /\ CapsHeld(store_one, store_pruned)

C19_Witness ==
  /\ store_pruned # NotPruned
  /\ DOMAIN store_one.kids = {"a", "b"}
  /\ store_one.kids["a"].tag = "string"
  /\ store_one.kids["a"].len = MAX_STORE_STRING_LENGTH + 1
  /\ store_one.kids["b"].tag = "string"
  /\ store_one.kids["b"].len = MAX_STORE_STRING_LENGTH
  /\ DOMAIN store_pruned.kids = {"b"}

\* every key of object v whose value is within the caps is a key of c, and
\* so in the objects inside
RECURSIVE OthersKept(_, _)
OthersKept(v, c) ==
  \A k \in DOMAIN v.kids :
    ~OverCap(v.kids[k])
    => /\ k \in DOMAIN c.kids
       /\ v.kids[k].tag = "object" => OthersKept(v.kids[k], c.kids[k])

\* C20: in every object of the payload a key whose value is neither an
\* over-cap string nor an over-cap list (a number, a boolean, null, a short
\* string, an object, a short list) is present in the output object.
C20_OnlyOffendersDropped ==
  store_pruned # NotPruned => OthersKept(store_one, store_pruned)

\* in c, what became of v found at path, no key whose path is a blacklist
\* entry is left, at any depth; the items of a list have the path of the list
RECURSIVE BlacklistedGone(_, _, _)
BlacklistedGone(v, c, path) ==
  \A k \in DOMAIN v.kids :
    /\ (k # <<>> /\ path \o k \in FIELD_BLACKLIST) => k \notin DOMAIN c.kids
    /\ k \in DOMAIN c.kids => BlacklistedGone(v.kids[k], c.kids[k], path \o k)

ExampleStoreOne ==
  [tag |-> "object", len |-> 0,
   kids |-> [k \in {<<"data">>} |->
     [tag |-> "object", len |-> 0,
      kids |-> [j \in {<<"about_the_game">>, <<"name">>} |->
                 [tag |-> "string", len |-> 1, kids |-> NoKids]]]]]

ExamplePayload ==
  [tag |-> "object", len |-> 0,
   kids |-> [k \in {<<"data">>} |->
     [tag |-> "object", len |-> 0,
      kids |-> [j \in {<<"name">>} |->
                 [tag |-> "string", len |-> 1, kids |-> NoKids]]]]]

\* C21: a node whose dotted key path from the root of the payload equals a
\* blacklist entry is removed; the items of a list carry the path of the
\* list, so a blacklisted key under a list goes from every item; and
\* {data: {about_the_game: x, name: y}} becomes {data: {name: y}}.
C21_PathBlacklist ==
  payload.tag # "unset"
  => /\ payload.tag = "object"
     /\ BlacklistedGone(store_one, payload, <<>>)
     /\ store_one = ExampleStoreOne => payload = ExamplePayload

C21_Witness ==
  /\ payload.tag = "object"
  /\ <<"data">> \in DOMAIN store_one.kids
  /\ store_one.kids[<<"data">>].tag = "array"
  /\ <<>> \in DOMAIN store_one.kids[<<"data">>].kids
  /\ store_one.kids[<<"data">>].kids[<<>>].tag = "object"
  /\ DOMAIN store_one.kids[<<"data">>].kids[<<>>].kids = {<<"about_the_game">>, <<"name">>}
  /\ store_one.kids[<<"data">>].kids[<<>>].kids[<<"name">>].tag = "string"
  /\ DOMAIN payload.kids[<<"data">>].kids[<<>>].kids = {<<"name">>}

\* in c every key and list item of v whose path is no blacklist entry is
\* present, a leaf with its value, and so at any depth
RECURSIVE OthersPresent(_, _, _)
OthersPresent(v, c, path) ==
  \A k \in DOMAIN v.kids :
    (k = <<>> \/ path \o k \notin FIELD_BLACKLIST)
    => /\ k \in DOMAIN c.kids
       /\ IF v.kids[k].tag \in {"object", "array"}
          THEN OthersPresent(v.kids[k], c.kids[k], path \o k)
          ELSE c.kids[k].tag = v.kids[k].tag /\ c.kids[k].len = v.kids[k].len

\* C22: every object key and list item of the payload whose path is no
\* blacklist entry, and that has no blacklisted ancestor, is present in the
\* output with its value, whatever the value, null included.
C22_OthersKept ==
  payload.tag # "unset" => OthersPresent(store_one, payload, <<>>)

\* the lines of the output file that hold what this run wrote: those after
\* the lines the file had when the run opened it (none when it truncates)
WrittenLines ==
  LET before == IF args.resume THEN Len(chain0.lines) ELSE 0
  IN {out.lines[k] : k \in (before + 1)..Len(out.lines)}

\* C23: while the run is not terminated from outside, every line of the
\* output file that the run wrote is parseable on its own as a JSON object
\* of one key, str(appid) for an appid of the pending list.
C23_WrittenLinesParse ==
  pc \in {"running", "done"}
  => \A line \in WrittenLines :
       /\ one_record(line)
       /\ \E i \in 1..Len(appids) : appids[i] = line[1].appid

\* C24: a missing identifier-list file ends the run before the loop; a
\* missing output file under --resume does not: the scan gives the empty
\* set, the pending list is the whole selected list and the run goes on to
\* its loop.
C24_MissingFiles ==
  /\ [](nruns > 0 /\ ~args.appid_list.exists
          => /\ pc \in {"loading", "aborted", "killed"}
             /\ idx = 0)
  /\ [][(pc = "loading" /\ ~args.appid_list.exists /\ pc' # "killed")
         => pc' = "aborted"]_vars
  /\ [][(pc = "resuming" /\ args.resume /\ ~out.exists /\ pc' # "killed")
         => pc' = "opening" /\ done_appids' = {} /\ appids' = appids]_vars
  /\ [][(pc = "opening" /\ args.resume /\ ~out.exists /\ pc' # "killed")
         => pc' = "running"]_vars

C24_Witness ==
  /\ pc = "running"
  /\ args.resume
  /\ ~chain0.exists
  /\ done_appids = {}
  /\ appids = <<2, 1, 2>>
  /\ idx = 1

\* the items of ids at the 0-based indices from s up to e (not included;
\* up to the end when e is -1), the first t of them when t > 0
Ranged(ids, s, e, t) ==
  LET hi == IF e = -1 \/ e > Len(ids) THEN Len(ids) ELSE e
      n0 == IF hi > s THEN hi - s ELSE 0
      n == IF t > 0 /\ t < n0 THEN t ELSE n0
  IN [i \in 1..n |-> ids[s + i]]

\* C25: apply_index_range gives the items from the start index (included)
\* to the end index (not included), to the end of the list when the end
\* index is -1, then the first top_n of them when top_n > 0 and all when
\* top_n = 0, in the order of the list; a start index below 0, a top_n below
\* 0 or an end index other than -1 below the start index is an error.
C25_IndexRange ==
  LET a == args
      rejected == a.start_index < 0 \/ a.top_n < 0
                  \/ (a.end_index # -1 /\ a.end_index < a.start_index)
  IN nruns > 0
     => /\ rejected => pc \in {"loading", "aborted", "killed"}
        /\ pc = "resuming"
           => /\ ~rejected
              /\ appids = Ranged(load_local_appids(a.appid_list).appids,
                                 a.start_index, a.end_index, a.top_n)

C25_Witness ==
  /\ pc = "resuming"
  /\ args.start_index = 1
  /\ args.end_index = 4
  /\ args.top_n = 1
  /\ appids = <<1>>

\* C27: wait() called when min_interval or more has passed since the last
\* wait() returned does not sleep and returns 0; called after d < min_interval
\* it sleeps for, and returns, min_interval - d (the sleep may overrun); either
\* way the moment it returns becomes the last-request time.  Every step is
\* such a call or the passing of one tick.
C27_Wait ==
  [][\/ /\ elapsed' = Min(elapsed + 1, MaxElapsed)
        /\ UNCHANGED <<waited, gap, nwaits>>
     \/ /\ elapsed >= min_interval
        /\ waited' = 0
        /\ gap' = elapsed
        /\ elapsed' = 0
     \/ /\ elapsed < min_interval
        /\ waited' = min_interval - elapsed
        /\ gap' \in min_interval..(min_interval + MaxOverrun)
        /\ elapsed' = 0]_vars

C27_Witness ==
  /\ nwaits = 2
  /\ elapsed = 0
  /\ waited > 0
  /\ waited < min_interval
  /\ gap > min_interval

\* the limiter waited on is the one of the source of the url
OwnLimiter ==
  /\ (chosen.url.host = "store.steampowered.com")
     => (chosen.limiter = "store_limiter")
  /\ (chosen.url.host \in SteamSpyHosts /\ chosen.url.request = "all")
     => (chosen.limiter = "steamspy_all_limiter")
  /\ (chosen.url.host \in SteamSpyHosts /\ chosen.url.request # "all")
     => (chosen.limiter = "steamspy_limiter")

\* C26: each logical source has a limiter of its own: a request to the store
\* host, a SteamSpy request for one item and a SteamSpy request=all request
\* wait on three different limiters, and a wait() for one source leaves the
\* last-request time (and the interval) of every other limiter as it was.
C26_LimiterPerSource ==
  /\ []OwnLimiter
  /\ [][\A l \in LimiterNames :
          \/ limiters'[l] = limiters[l]
          \/ /\ l = chosen'.limiter
             /\ limiters'[l] = [limiters[l] EXCEPT !.last_ts = now']]_vars

C26_Witness ==
  /\ chosen.url.host = "steamspy.com"
  /\ chosen.url.request = "all"
  /\ chosen.waited > 0
  /\ limiters["steamspy_all_limiter"].last_ts = now
  /\ limiters["steamspy_limiter"].last_ts > 0
  /\ limiters["steamspy_limiter"].last_ts < limiters["store_limiter"].last_ts
  /\ limiters["store_limiter"].last_ts < now

\* C28: every HTTP request, a first attempt or a retry, of any call, comes
\* straight after a wait() on the limiter: the step that makes the request
\* is a step of the limiter too, wait() returned min_interval less the time
\* since its last return (0 when that is not positive), and from the second
\* request on the request starts min_interval or more after the one before.
C28_RequestsSpaced ==
  [][RequestStep
     => /\ nwaits' = Min(nwaits + 1, 2)
        /\ waited' = Max(min_interval - elapsed, 0)
        /\ gap' >= Min(elapsed + waited', MaxElapsed)
        /\ nwaits >= 1 => gap' >= min_interval]_vars

C28_Witness ==
  /\ ncalls = 2
  /\ call.requests = 2
  /\ call.response.kind = "ok"
  /\ call.state = "returned"
  /\ nwaits = 2
  /\ waited = min_interval - BACKOFF_START
  /\ gap >= min_interval

\* the appids of the records this run wrote, in the order of the file
WrittenRecords ==
  LET before == IF args.resume THEN Len(chain0.lines) ELSE 0
  IN [k \in 1..(Len(out.lines) - before) |->
        out.lines[before + k][Len(out.lines[before + k])].appid]

\* a is b with some of its items left out
RECURSIVE IsSubseq(_, _)
IsSubseq(a, b) ==
  IF a = <<>> THEN TRUE
  ELSE IF b = <<>> THEN FALSE
  ELSE IF Head(a) = Head(b) THEN IsSubseq(Tail(a), Tail(b))
  ELSE IsSubseq(a, Tail(b))

\* C29: the pending list is worked through in its order, one appid at a
\* time: each pass of the loop takes the next appid of the list and makes
\* requests for that appid only, every appid before it has been counted as
\* ok, skip or err by then, and the records the run writes stand in the file
\* in the order of the list.
C29_InOrder ==
  /\ [](pc \in {"running", "done"}
          => /\ requested \subseteq {appids[k] : k \in 1..idx}
             /\ ok_count + skip_count + err_count = idx
             /\ IsSubseq(WrittenRecords, SubSeq(appids, 1, idx)))
  /\ [][LoopStep
         => /\ last'.appid = appids[idx + 1]
            /\ requested' \subseteq requested \cup {appids[idx + 1]}
            /\ last'.requests > 0 => appids[idx + 1] \in requested']_vars

C29_Witness ==
  /\ pc = "done"
  /\ appids = <<2, 1>>
  /\ WrittenRecords = <<2, 1>>
  /\ requested = {1, 2}
  /\ last.appid = 1
  /\ out.exists

\* C30: while the loop runs no counter goes down, each pass adds one to
\* exactly one of ok, skip and err, ok is the number of lines this run has
\* added to the file, and when the run is done ok + skip + err is the length
\* of the pending list.
C30_Counters ==
  /\ [](pc \in {"running", "done"}
          => ok_count = Len(out.lines) - (IF args.resume THEN Len(chain0.lines) ELSE 0))
  /\ [](pc = "done" => ok_count + skip_count + err_count = Len(appids))
  /\ [][pc = "running"
         => /\ ok_count' >= ok_count
            /\ skip_count' >= skip_count
            /\ err_count' >= err_count]_vars
  /\ [][LoopStep
         => <<ok_count' - ok_count, skip_count' - skip_count, err_count' - err_count>>
              \in {<<1, 0, 0>>, <<0, 1, 0>>, <<0, 0, 1>>}]_vars

C30_Witness ==
  /\ pc = "done"
  /\ Len(appids) = 2
  /\ ok_count = 1
  /\ skip_count = 0
  /\ err_count = 1
  /\ Len(out.lines) = 2
  /\ args.resume

\* C31: what a scan of the output file of a run without --resume gives is
\* the set of the appids the run has counted as ok: nothing when the loop
\* starts, one appid more with each pass that adds to ok and the same set
\* after a pass that adds to skip or err, so at the end of the run exactly
\* the appids counted as ok.
C31_RoundTrip ==
  /\ [](pc = "running" /\ ~args.resume /\ idx = 0
          => load_done_appids_from_jsonl(out) = [raised |-> FALSE, done |-> {}])
  /\ [][(LoopStep /\ ~args.resume)
         => load_done_appids_from_jsonl(out')
            = [raised |-> FALSE,
               done |-> load_done_appids_from_jsonl(out).done
                        \cup (IF ok_count' = ok_count + 1 THEN {appids[idx + 1]}
                              ELSE {})]]_vars
  /\ [](pc = "done" /\ ~args.resume
          => /\ ok_count = 0 <=> load_done_appids_from_jsonl(out).done = {}
             /\ Cardinality(load_done_appids_from_jsonl(out).done) <= ok_count)

C31_Witness ==
  /\ pc = "done"
  /\ ~args.resume
  /\ appids = <<1, 2>>
  /\ ok_count = 1
  /\ skip_count = 1
  /\ last.appid = 2
  /\ last.payload = "nodata"
  /\ load_done_appids_from_jsonl(out).done = {1}

\* a pass of the loop of fetch_games
GamesLoopStep == pc = "running" /\ idx' = idx + 1

StoreSuccess(l) == l.kind = "value" /\ l.payload \notin {"nodata", "notdict"}

\* C32: in fetch_games the SteamSpy request for an appid is made only after
\* the store request for it gave a payload with the success flag; a store
\* payload without it counts as skip with no SteamSpy request and no line;
\* a SteamSpy fetch that fails after a store success counts as err with no
\* line; so a line is written only when both calls returned.
C32_StoreThenSpy ==
  [][GamesLoopStep
     => /\ last'.appid = appids[idx + 1]
        /\ call'.requests > 0 => StoreSuccess(last')
        /\ (last'.kind = "value" /\ ~StoreSuccess(last'))
           => /\ skip_count' = skip_count + 1
              /\ call'.requests = 0
              /\ out' = out
        /\ (StoreSuccess(last') /\ call'.state = "raised")
           => /\ err_count' = err_count + 1
              /\ out' = out
        /\ out' # out
           => /\ StoreSuccess(last')
              /\ call'.state = "returned"
              /\ call'.requests > 0
              /\ ok_count' = ok_count + 1
              /\ out' = write_line(out, appids[idx + 1])]_vars

C32_Witness ==
  /\ pc = "running"
  /\ appids = <<2, 1>>
  /\ idx = 2
  /\ last.appid = 1
  /\ last.payload = "success"
  /\ call.state = "raised"
  /\ call.result.kind = "RuntimeError"
  /\ call.requests = 2
  /\ err_count = 1
  /\ skip_count = 1
  /\ Len(out.lines) = 0

\* C33: the output file is opened, and without --resume emptied, only when
\* the checks of the arguments, the loading of the appid list, the index
\* range and the resume scan have all gone through: a run that aborts on a
\* bad argument or on a missing or malformed appid list leaves a file that
\* was there as it was.
C33_FileUntouched ==
  /\ [](pc \in {"opening", "running", "done"} => ~InvalidConfig(args))
  /\ [](pc = "opening" /\ args.resume => ~load_done_appids_from_jsonl(out).raised)
  /\ [][pc \notin {"opening", "running"} => out' = out]_vars
  /\ [][pc' = "aborted" => out' = out]_vars

C33_Witness ==
  /\ pc = "aborted"
  /\ ~args.resume
  /\ ~check_args(args)
  /\ args.appid_list.exists
  /\ args.appid_list.shape = "other"
  /\ out.exists
  /\ Len(out.lines) = 1
  /\ out.tail # <<>>

\* C34: only an appid with a written record counts as done: after a pass
\* that ended as skip or err the appid of the pass has no line in the file
\* and is not in what a scan of the file gives, so the next run with
\* --resume keeps it in its pending list, and every pass makes a request
\* for its appid.
C34_OnlyWrittenDone ==
  /\ [][(LoopStep /\ ok_count' = ok_count)
         => /\ out' = out
            /\ appids[idx + 1] \notin load_done_appids_from_jsonl(out').done
            /\ \A k \in 1..Len(AllLines(out')) :
                 \A j \in 1..Len(AllLines(out')[k]) :
                   AllLines(out')[k][j].part = "whole"
                   => AllLines(out')[k][j].appid # appids[idx + 1]]_vars
  /\ [][(pc = "resuming" /\ pc' = "opening")
         => \A i \in 1..Len(appids) :
              appids[i] \notin load_done_appids_from_jsonl(out).done
              => \E k \in 1..Len(appids') : appids'[k] = appids[i]]_vars
  /\ [][LoopStep => last'.requests >= 1 /\ last'.appid = appids[idx + 1]]_vars

====
